---- MODULE Spec2Model ----
(***************************************************************************)
(* Sales-order creation pipeline of the Saleorder API                      *)
(* (api/shared/sap_sales_order.py).  Python strings are modelled as        *)
(* sequences of one-character strings, so that concatenation, strip(),     *)
(* startswith(), isdigit() and zfill() are computed and not assumed.       *)
(* Python dicts are functions whose domain is the set of keys present.     *)
(***************************************************************************)
EXTENDS Integers, Sequences, FiniteSets, TLC

\* ---------------------------------------------------------------- bounds
\* Largest number of rows in one create_sales_orders call.
MaxRows == 3

\* ------------------------------------------------------ string primitives
Digits == {"0", "1", "2", "3", "4", "5", "6", "7", "8", "9"}

\* The ASCII whitespace str.strip() removes.
Whitespace == {" ", "\t", "\n", "\r"}

DigitVal(c) ==
    CASE c = "0" -> 0 [] c = "1" -> 1 [] c = "2" -> 2 [] c = "3" -> 3
      [] c = "4" -> 4 [] c = "5" -> 5 [] c = "6" -> 6 [] c = "7" -> 7
      [] c = "8" -> 8 [] c = "9" -> 9

DigitChar(n) ==
    CASE n = 0 -> "0" [] n = 1 -> "1" [] n = 2 -> "2" [] n = 3 -> "3"
      [] n = 4 -> "4" [] n = 5 -> "5" [] n = 6 -> "6" [] n = 7 -> "7"
      [] n = 8 -> "8" [] n = 9 -> "9"

\* str.lstrip() / str.rstrip() / str.strip()
RECURSIVE LStrip(_)
LStrip(s) ==
    IF s # <<>> /\ Head(s) \in Whitespace THEN LStrip(Tail(s)) ELSE s

RECURSIVE RStrip(_)
RStrip(s) ==
    IF s # <<>> /\ s[Len(s)] \in Whitespace
    THEN RStrip(SubSeq(s, 1, Len(s) - 1))
    ELSE s

Strip(s) == RStrip(LStrip(s))

\* str.startswith(prefix)
StartsWith(s, prefix) ==
    /\ Len(prefix) <= Len(s)
    /\ SubSeq(s, 1, Len(prefix)) = prefix

\* s[:n]
Take(s, n) == SubSeq(s, 1, IF Len(s) < n THEN Len(s) ELSE n)

\* str.isdigit(): non-empty and every character a digit
IsDigit(s) == s # <<>> /\ \A i \in 1..Len(s) : s[i] \in Digits

RECURSIVE Zeros(_)
Zeros(n) == IF n <= 0 THEN <<>> ELSE <<"0">> \o Zeros(n - 1)

\* str.zfill(width): zeros go after a leading sign
ZFill(s, width) ==
    IF Len(s) >= width THEN s
    ELSE IF s # <<>> /\ Head(s) \in {"+", "-"}
         THEN <<Head(s)>> \o Zeros(width - Len(s)) \o Tail(s)
         ELSE Zeros(width - Len(s)) \o s

\* str(n) for a natural number n
RECURSIVE NatToStr(_)
NatToStr(n) ==
    IF n < 10 THEN <<DigitChar(n)>>
    ELSE NatToStr(n \div 10) \o <<DigitChar(n % 10)>>

RECURSIVE DigitsToNat(_)
DigitsToNat(s) ==
    IF s = <<>> THEN 0
    ELSE 10 * DigitsToNat(SubSeq(s, 1, Len(s) - 1)) + DigitVal(s[Len(s)])

\* float(x) on the quantities of the model: optional surrounding blanks, an
\* optional sign and decimal digits.  Anything else makes float() raise
\* ValueError.
FloatRaises(x) ==
    LET t == Strip(x)
        u == IF t # <<>> /\ Head(t) \in {"+", "-"} THEN Tail(t) ELSE t
    IN  ~IsDigit(u)

Float(x) ==
    LET t == Strip(x)
        u == IF t # <<>> /\ Head(t) \in {"+", "-"} THEN Tail(t) ELSE t
    IN  IF t # <<>> /\ Head(t) = "-" THEN 0 - DigitsToNat(u) ELSE DigitsToNat(u)

\* dict.get(key, default)
Get(d, key, default) == IF key \in DOMAIN d THEN d[key] ELSE default

\* d[key] = value
Put(d, key, value) == (key :> value) @@ d

\* --------------------------------------------------------- string literals
S_Error == <<"E", "r", "r", "o", "r">>

S_ErrorColon == <<"E", "r", "r", "o", "r", ":", " ">>

S_Created == <<"C", "r", "e", "a", "t", "e", "d">>

S_ErrorUnknown == <<"E", "r", "r", "o", "r", ":", " ", "U", "n", "k", "n", "o", "w", "n">>

S_UnknownError == <<"U", "n", "k", "n", "o", "w", "n", " ", "e", "r", "r", "o", "r">>

S_NoOrderNumber == <<"E", "r", "r", "o", "r", ":", " ", "N", "o", " ", "s", "a", "l", "e", "s", " ", "o", "r", "d", "e", "r", " ", "n", "u", "m", "b", "e", "r", " ", "r", "e", "t", "u", "r", "n", "e", "d">>

S_Ready == <<"R", "e", "a", "d", "y">>

S_NoEquipmentId == <<"E", "r", "r", "o", "r", ":", " ", "N", "o", " ", "E", "q", "u", "i", "p", "m", "e", "n", "t", " ", "I", "D">>

SALES_DOC_TYPE == <<"Z", "M", "T", "Q">>

FIXED_DIST_CHANNEL == <<"9", "9">>

FIXED_DIVISION == <<"0", "1">>

S_CouldNotConvert == <<"c", "o", "u", "l", "d", " ", "n", "o", "t", " ", "c", "o", "n", "v", "e", "r", "t", " ", "s", "t", "r", "i", "n", "g", " ", "t", "o", " ", "f", "l", "o", "a", "t", ":", " ">>

\* str(e) of the ValueError that float(x) raises
FloatErrorMsg(x) == S_CouldNotConvert \o <<"'">> \o x \o <<"'">>

\* Longest partner string drawn in full from the alphabet.
MaxPartnerLen == 3

\* Largest number of successive applications of format_partner_number.
MaxFormatCalls == 2

\* ------------------------------------------------- format_partner_number
\* format_partner_number without the strip().
format_partner_number_NoStrip(p) ==
    IF p = <<>> THEN <<>>
    ELSE IF IsDigit(p) THEN ZFill(p, 10)
    ELSE p

format_partner_number(partner) ==
    LET p == Strip(partner)
    IN  IF p = <<>> THEN <<>>
        ELSE IF IsDigit(p) THEN ZFill(p, 10)
        ELSE p

\* ------------------------------------ call_bapi_salesorder_create: payload
\* BuildLines in which a skipped row uses up an item number.
RECURSIVE BuildLinesSkipCounts(_, _, _)
BuildLinesSkipCounts(rs, item_num, acc) ==
    IF rs = <<>> THEN acc
    ELSE
      LET row      == Head(rs)
          material == Strip(Get(row, "material", <<>>))
          rawqty   == Get(row, "material_qty", <<"0">>)
      IN  IF FloatRaises(rawqty)
          THEN [acc EXCEPT !.raised = TRUE, !.msg = FloatErrorMsg(rawqty)]
          ELSE
            LET qty == Float(rawqty)
            IN  IF material = <<>> \/ qty <= 0
                THEN BuildLinesSkipCounts(Tail(rs), item_num + 10, acc)
                ELSE
                  LET num      == item_num + 10
                      item_str == ZFill(NatToStr(num), 6)
                      hasBatch == Get(row, "batch", <<>>) # <<>>
                      item0 == [ITM_NUMBER |-> item_str,
                                MATERIAL   |-> material,
                                PLANT      |-> Get(row, "plant", <<>>),
                                TARGET_QTY |-> qty,
                                REF_1      |-> Take(Get(row, "equipment_id", <<>>), 12)]
                      item  == IF hasBatch THEN Put(item0, "BATCH", row["batch"]) ELSE item0
                      itx0  == [ITM_NUMBER |-> item_str,
                                UPDATEFLAG |-> "I",
                                MATERIAL   |-> "X",
                                PLANT      |-> "X",
                                TARGET_QTY |-> "X",
                                REF_1      |-> "X"]
                      item_x == IF hasBatch THEN Put(itx0, "BATCH", "X") ELSE itx0
                      sched  == [ITM_NUMBER |-> item_str,
                                 SCHED_LINE |-> <<"0", "0", "0", "1">>,
                                 REQ_QTY    |-> qty]
                      sched_x == [ITM_NUMBER |-> item_str,
                                  SCHED_LINE |-> <<"0", "0", "0", "1">>,
                                  UPDATEFLAG |-> "I",
                                  REQ_QTY    |-> "X"]
                  IN  BuildLinesSkipCounts(Tail(rs), num,
                        [acc EXCEPT !.items       = Append(@, item),
                                    !.items_x     = Append(@, item_x),
                                    !.schedules   = Append(@, sched),
                                    !.schedules_x = Append(@, sched_x)])

\* The item loop.  rs is the list of row dicts still to visit, item_num the
\* running item number, acc the four tables built so far.  A row whose
\* material_qty float() rejects ends the loop with the exception message.
RECURSIVE BuildLines(_, _, _)
BuildLines(rs, item_num, acc) ==
    IF rs = <<>> THEN acc
    ELSE
      LET row      == Head(rs)
          material == Strip(Get(row, "material", <<>>))
          rawqty   == Get(row, "material_qty", <<"0">>)
      IN  IF FloatRaises(rawqty)
          THEN [acc EXCEPT !.raised = TRUE, !.msg = FloatErrorMsg(rawqty)]
          ELSE
            LET qty == Float(rawqty)
            IN  IF material = <<>> \/ qty <= 0
                THEN BuildLines(Tail(rs), item_num, acc)
                ELSE
                  LET num      == item_num + 10
                      item_str == ZFill(NatToStr(num), 6)
                      hasBatch == Get(row, "batch", <<>>) # <<>>
                      item0 == [ITM_NUMBER |-> item_str,
                                MATERIAL   |-> material,
                                PLANT      |-> Get(row, "plant", <<>>),
                                TARGET_QTY |-> qty,
                                REF_1      |-> Take(Get(row, "equipment_id", <<>>), 12)]
                      item  == IF hasBatch THEN Put(item0, "BATCH", row["batch"]) ELSE item0
                      itx0  == [ITM_NUMBER |-> item_str,
                                UPDATEFLAG |-> "I",
                                MATERIAL   |-> "X",
                                PLANT      |-> "X",
                                TARGET_QTY |-> "X",
                                REF_1      |-> "X"]
                      item_x == IF hasBatch THEN Put(itx0, "BATCH", "X") ELSE itx0
                      sched  == [ITM_NUMBER |-> item_str,
                                 SCHED_LINE |-> <<"0", "0", "0", "1">>,
                                 REQ_QTY    |-> qty]
                      sched_x == [ITM_NUMBER |-> item_str,
                                  SCHED_LINE |-> <<"0", "0", "0", "1">>,
                                  UPDATEFLAG |-> "I",
                                  REQ_QTY    |-> "X"]
                  IN  BuildLines(Tail(rs), num,
                        [acc EXCEPT !.items       = Append(@, item),
                                    !.items_x     = Append(@, item_x),
                                    !.schedules   = Append(@, sched),
                                    !.schedules_x = Append(@, sched_x)])

NoLines ==
    [raised |-> FALSE, msg |-> <<>>, items |-> <<>>, items_x |-> <<>>,
     schedules |-> <<>>, schedules_x |-> <<>>]

\* BuildPayload that never flags ORD_REASON in the header indicators.
BuildPayloadNoReasonFlag(rs, user_id) ==
    LET first_row    == rs[1]
        dist_channel == ZFill(Get(first_row, "dist_channel", <<"9", "9">>), 2)
        division     == ZFill(Get(first_row, "division", <<"0", "1">>), 2)
        sold_to      == format_partner_number(Get(first_row, "sold_to", <<>>))
        ship_to      == format_partner_number(Get(first_row, "ship_to", <<>>))
        hasAugru     == Get(first_row, "augru", <<>>) # <<>>
        header0 == [DOC_TYPE   |-> SALES_DOC_TYPE,
                    SALES_ORG  |-> Get(first_row, "sales_org", <<>>),
                    DISTR_CHAN |-> dist_channel,
                    DIVISION   |-> division,
                    PURCH_NO_C |-> Take(user_id, 35)]
        header  == IF hasAugru THEN Put(header0, "ORD_REASON", first_row["augru"])
                   ELSE header0
        hx0     == [UPDATEFLAG |-> "I",
                    DOC_TYPE   |-> "X",
                    SALES_ORG  |-> "X",
                    DISTR_CHAN |-> "X",
                    DIVISION   |-> "X",
                    PURCH_NO_C |-> "X"]
        header_x == hx0
        partners == << [PARTN_ROLE |-> "AG", PARTN_NUMB |-> sold_to],
                       [PARTN_ROLE |-> "WE", PARTN_NUMB |-> ship_to] >>
        lines    == BuildLines(rs, 0, NoLines)
    IN  [raised |-> lines.raised,
         msg    |-> lines.msg,
         args   |-> [ORDER_HEADER_IN      |-> header,
                     ORDER_HEADER_INX     |-> header_x,
                     ORDER_PARTNERS       |-> partners,
                     ORDER_ITEMS_IN       |-> lines.items,
                     ORDER_ITEMS_INX      |-> lines.items_x,
                     ORDER_SCHEDULES_IN   |-> lines.schedules,
                     ORDER_SCHEDULES_INX  |-> lines.schedules_x]]

\* Everything call_bapi_salesorder_create does before conn.call: either the
\* keyword arguments of BAPI_SALESORDER_CREATEFROMDAT2, or the exception.
BuildPayload(rs, user_id) ==
    LET first_row    == rs[1]
        dist_channel == ZFill(Get(first_row, "dist_channel", <<"9", "9">>), 2)
        division     == ZFill(Get(first_row, "division", <<"0", "1">>), 2)
        sold_to      == format_partner_number(Get(first_row, "sold_to", <<>>))
        ship_to      == format_partner_number(Get(first_row, "ship_to", <<>>))
        hasAugru     == Get(first_row, "augru", <<>>) # <<>>
        header0 == [DOC_TYPE   |-> SALES_DOC_TYPE,
                    SALES_ORG  |-> Get(first_row, "sales_org", <<>>),
                    DISTR_CHAN |-> dist_channel,
                    DIVISION   |-> division,
                    PURCH_NO_C |-> Take(user_id, 35)]
        header  == IF hasAugru THEN Put(header0, "ORD_REASON", first_row["augru"])
                   ELSE header0
        hx0     == [UPDATEFLAG |-> "I",
                    DOC_TYPE   |-> "X",
                    SALES_ORG  |-> "X",
                    DISTR_CHAN |-> "X",
                    DIVISION   |-> "X",
                    PURCH_NO_C |-> "X"]
        header_x == IF hasAugru THEN Put(hx0, "ORD_REASON", "X") ELSE hx0
        partners == << [PARTN_ROLE |-> "AG", PARTN_NUMB |-> sold_to],
                       [PARTN_ROLE |-> "WE", PARTN_NUMB |-> ship_to] >>
        lines    == BuildLines(rs, 0, NoLines)
    IN  [raised |-> lines.raised,
         msg    |-> lines.msg,
         args   |-> [ORDER_HEADER_IN      |-> header,
                     ORDER_HEADER_INX     |-> header_x,
                     ORDER_PARTNERS       |-> partners,
                     ORDER_ITEMS_IN       |-> lines.items,
                     ORDER_ITEMS_INX      |-> lines.items_x,
                     ORDER_SCHEDULES_IN   |-> lines.schedules,
                     ORDER_SCHEDULES_INX  |-> lines.schedules_x]]

\* ------------------------------ call_bapi_salesorder_create: the response
\* The first RETURN entry of type E or A, as "Error: <MESSAGE>"; <<>> if none.
RECURSIVE FirstError(_)
FirstError(returns) ==
    IF returns = <<>> THEN <<>>
    ELSE IF Get(Head(returns), "TYPE", "") \in {"E", "A"}
         THEN S_ErrorColon \o Get(Head(returns), "MESSAGE", S_UnknownError)
         ELSE FirstError(Tail(returns))

\* HasError with the abort type forgotten.
HasErrorOnlyE(returns) ==
    \E i \in 1..Len(returns) : Get(returns[i], "TYPE", "") = "E"

HasError(returns) ==
    \E i \in 1..Len(returns) : Get(returns[i], "TYPE", "") \in {"E", "A"}

\* ------------------------------------------- create_sales_orders: grouping
GroupKey(row) ==
    Get(row, "augru", <<>>) \o <<"|">> \o Get(row, "sold_to", <<>>)
        \o <<"|">> \o Get(row, "ship_to", <<>>)

\* AddToGroup putting a new key in front of the older ones.
AddToGroupFront(gs, key, i) ==
    IF \E j \in 1..Len(gs) : gs[j].key = key
    THEN [j \in 1..Len(gs) |->
            IF gs[j].key = key
            THEN [gs[j] EXCEPT !.rows = Append(@, i)]
            ELSE gs[j]]
    ELSE <<[key |-> key, rows |-> <<i>>]>> \o gs

\* groups[key].append(i) on an insertion-ordered dict, kept as a list of
\* [key, rows] entries; rows are referenced by their index in the input.
AddToGroup(gs, key, i) ==
    IF \E j \in 1..Len(gs) : gs[j].key = key
    THEN [j \in 1..Len(gs) |->
            IF gs[j].key = key
            THEN [gs[j] EXCEPT !.rows = Append(@, i)]
            ELSE gs[j]]
    ELSE Append(gs, [key |-> key, rows |-> <<i>>])

RECURSIVE GroupRows(_, _, _)
GroupRows(rs, i, gs) ==
    IF i > Len(rs) THEN gs
    ELSE GroupRows(rs, i + 1, AddToGroup(gs, GroupKey(rs[i]), i))

\* ------------------------------------------------------------------ inputs
\* A row as enrich_equipment_data leaves it when every lookup succeeded.
ReadyRow(equipment_id, material, material_qty, augru, sold_to, ship_to) ==
    [equipment_id |-> equipment_id,
     material     |-> material,
     material_qty |-> material_qty,
     plant        |-> <<"U", "S", "0", "1">>,
     sales_org    |-> <<"U", "S", "0", "1">>,
     dist_channel |-> FIXED_DIST_CHANNEL,
     division     |-> FIXED_DIVISION,
     sold_to      |-> sold_to,
     ship_to      |-> ship_to,
     augru        |-> augru,
     status       |-> S_Ready]

\* A row as enrich_equipment_data leaves it when the equipment id is empty:
\* only the uploaded columns and the error status.
ErrorRow(material, material_qty) ==
    [equipment_id |-> <<>>,
     material     |-> material,
     material_qty |-> material_qty,
     status       |-> S_NoEquipmentId]

\* The rows a request may carry.  Two of them have different key triples
\* whose "|"-joined text is the same, and one of these carries a batch; one
\* has a quantity float() rejects.
RowPool ==
    { ReadyRow(<<"E", "1">>, <<"M", "1">>, <<"5">>, <<"A">>, <<"1">>, <<"2">>),
      ReadyRow(<<"E", "2">>, <<"M", "2">>, <<"0">>, <<"A">>, <<"1">>, <<"2">>),
      ReadyRow(<<"E", "3">>, <<"M", "3">>, <<"x">>, <<"A">>, <<"1">>, <<"2">>),
      ReadyRow(<<"E", "4">>, <<"M", "4">>, <<"2">>, <<"A", "|", "B">>, <<"7">>, <<"2">>),
      Put(ReadyRow(<<"E", "5">>, <<"M", "5">>, <<"1">>, <<"A">>, <<"B", "|", "7">>, <<"2">>),
          "batch", <<"B", "1">>),
      ErrorRow(<<"M", "6">>, <<"3">>) }

RECURSIVE SeqsUpTo(_, _)
SeqsUpTo(S, n) ==
    IF n = 0 THEN {<<>>}
    ELSE LET shorter == SeqsUpTo(S, n - 1)
         IN  shorter \cup {Append(q, x) : q \in {r \in shorter : Len(r) = n - 1}, x \in S}

Inputs == SeqsUpTo(RowPool, MaxRows)

UserIds == {<<"U", "S", "E", "R", "1">>}

\* ------------------------------------------------------- backend behaviour
S_Timeout == <<"t", "i", "m", "e", "o", "u", "t">>

\* What BAPI_SALESORDER_CREATEFROMDAT2 may answer.
Results ==
    { [SALESDOCUMENT |-> <<"4", "5", " ">>,
       RETURN |-> << [TYPE |-> "S", MESSAGE |-> <<"s", "a", "v", "e", "d">>] >>],
      [SALESDOCUMENT |-> <<"4", "6">>,
       RETURN |-> << [TYPE |-> "W", MESSAGE |-> <<"w">>],
                     [TYPE |-> "E", MESSAGE |-> <<"b", "l", "o", "c", "k", "e", "d">>] >>],
      [SALESDOCUMENT |-> <<>>,
       RETURN |-> << [TYPE |-> "A", MESSAGE |-> <<"a", "b", "o", "r", "t">>] >>],
      [SALESDOCUMENT |-> <<" ", " ">>,
       RETURN |-> <<>>],
      [SALESDOCUMENT |-> <<"E", "r", "r", "o", "r", "7">>,
       RETURN |-> <<>>] }

\* A backend call either returns or raises.
Returned(result) == [raised |-> FALSE, result |-> result]

Raised(msg) == [raised |-> TRUE, msg |-> msg]

SubmitOutcomes == {Returned(r) : r \in Results} \cup {Raised(S_Timeout)}

CommitOutcomes == {Returned([RETURN |-> <<>>]), Raised(S_Timeout)}

\* ------------------------------------------------------------------- state
VARIABLES
    pc,              \* where create_sales_orders / call_bapi_salesorder_create is
    rows,            \* the row dicts of the request, mutated in place
    user_id,         \* argument user_id
    groups,          \* insertion-ordered dict key -> list of rows
    gi,              \* position of the for loop over groups.items()
    orders_created,
    orders_failed,
    processed_rows,  \* list of (references to) rows
    args,            \* keyword arguments built for the create call
    result,          \* what conn.call returned
    so_number,       \* return value of call_bapi_salesorder_create
    exc,             \* str(e) of the exception being handled
    calls,           \* every conn.call made so far, with what came back
    retval,          \* what create_sales_orders / enrich_equipment_data returned
    enriched,        \* enrich_equipment_data: the list being built
    ei,              \* enrich_equipment_data: position of the for loop over rows
    partner,         \* format_partner_number: the argument
    formatted,       \* format_partner_number: the values returned so far
    hpc,             \* where the HTTP handler is
    handler,         \* which handler serves the request
    request,         \* the HTTP request
    table,           \* the 'sessions' table of the session store
    session,         \* what get_session returned
    opens,           \* len(calls) at every sap.connect that returned
    closes,          \* len(calls) at every conn.close()
    response         \* the HTTP response returned

vars == <<pc, rows, user_id, groups, gi, orders_created, orders_failed,
          processed_rows, args, result, so_number, exc, calls, retval,
          enriched, ei, partner, formatted,
          hpc, handler, request, table, session, opens, closes, response>>

\* Locals of create_sales_orders and call_bapi_salesorder_create.
order_vars == <<user_id, groups, gi, orders_created, orders_failed,
                processed_rows, args, so_number>>

enrich_vars == <<enriched, ei>>

format_vars == <<partner, formatted>>

handler_vars == <<hpc, handler, request, table, session, opens, closes, response>>

None == [none |-> TRUE]

\* No call of create_sales_orders or enrich_equipment_data has been made.
PipelineIdle ==
    /\ pc = "idle"
    /\ rows = <<>>
    /\ user_id = <<>>
    /\ groups = <<>>
    /\ gi = 0
    /\ orders_created = 0
    /\ orders_failed = 0
    /\ processed_rows = <<>>
    /\ args = None
    /\ result = None
    /\ so_number = <<>>
    /\ exc = <<>>
    /\ calls = <<>>
    /\ retval = None
    /\ enriched = <<>>
    /\ ei = 0

\* The sessions the table holds: one that expires later than any request
\* of the model arrives, one that has expired by then.
SessionTable ==
    [s1 |-> [user |-> <<"U", "S", "E", "R", "1">>, client |-> <<"1", "0", "0">>,
             system |-> <<"P", "R", "D">>, password |-> <<"p", "w">>, expires |-> 8],
     s2 |-> [user |-> <<"U", "S", "E", "R", "2">>, client |-> <<"1", "0", "0">>,
             system |-> <<"D", "E", "V">>, password |-> <<"p", "w">>, expires |-> 0]]

\* No request is being served.
HandlerIdle ==
    /\ hpc = "idle"
    /\ handler = None
    /\ request = None
    /\ table = SessionTable
    /\ session = None
    /\ opens = <<>>
    /\ closes = <<>>
    /\ response = None

Init ==
    /\ PipelineIdle
    /\ HandlerIdle
    /\ partner = <<>>
    /\ formatted = <<>>

\* MarkRows writing to the group's first row only.
MarkRowsFirstOnly(rs, group_rows, so, st) ==
    [i \in 1..Len(rs) |->
        IF group_rows # <<>> /\ group_rows[1] = i
        THEN Put(Put(rs[i], "sales_order", so), "status", st)
        ELSE rs[i]]

\* for row in group_rows: row['sales_order'] = so; row['status'] = st
MarkRows(rs, group_rows, so, st) ==
    [i \in 1..Len(rs) |->
        IF \E k \in 1..Len(group_rows) : group_rows[k] = i
        THEN Put(Put(rs[i], "sales_order", so), "status", st)
        ELSE rs[i]]

\* The row dicts a list of references denotes.
Deref(rs, refs) == [k \in 1..Len(refs) |-> rs[refs[k]]]

\* create_sales_orders is called: the grouping loop and the counters.
Call(input, uid) ==
    /\ pc = "idle"
    /\ UNCHANGED <<enrich_vars, format_vars, handler_vars>>
    /\ rows' = input
    /\ user_id' = uid
    /\ groups' = GroupRows(input, 1, <<>>)
    /\ gi' = 1
    /\ orders_created' = 0
    /\ orders_failed' = 0
    /\ processed_rows' = <<>>
    /\ pc' = "loop"
    /\ UNCHANGED <<args, result, so_number, exc, calls, retval>>

\* A loop iteration enters call_bapi_salesorder_create and builds the
\* payload; a failure there lands in the except clause.
Build ==
    /\ pc = "loop"
    /\ UNCHANGED <<enrich_vars, format_vars, handler_vars>>
    /\ gi <= Len(groups)
    /\ LET p == BuildPayload(Deref(rows, groups[gi].rows), user_id)
       IN  IF p.raised
           THEN /\ exc' = p.msg
                /\ pc' = "except"
                /\ UNCHANGED args
           ELSE /\ args' = p.args
                /\ pc' = "submit"
                /\ UNCHANGED exc
    /\ UNCHANGED <<rows, user_id, groups, gi, orders_created, orders_failed,
                   processed_rows, result, so_number, calls, retval>>

\* conn.call('BAPI_SALESORDER_CREATEFROMDAT2', ...)
Submit(outcome) ==
    /\ pc = "submit"
    /\ UNCHANGED <<enrich_vars, format_vars, handler_vars>>
    /\ calls' = Append(calls, [fn |-> "BAPI_SALESORDER_CREATEFROMDAT2",
                               group |-> gi, args |-> args, outcome |-> outcome])
    /\ IF outcome.raised
       THEN /\ exc' = outcome.msg
            /\ pc' = "except"
            /\ UNCHANGED result
       ELSE /\ result' = outcome.result
            /\ pc' = "returned"
            /\ UNCHANGED exc
    /\ args' = None
    /\ UNCHANGED <<rows, user_id, groups, gi, orders_created, orders_failed,
                   processed_rows, so_number, retval>>

\* Interpret with the order-number test moved above the RETURN scan.
InterpretCommitFirst ==
    /\ pc = "returned"
    /\ UNCHANGED <<enrich_vars, format_vars, handler_vars>>
    /\ LET num == Strip(Get(result, "SALESDOCUMENT", <<>>))
           returns == Get(result, "RETURN", <<>>)
       IN  IF num # <<>>
           THEN /\ so_number' = num
                /\ pc' = "commit"
           ELSE IF HasError(returns)
           THEN /\ so_number' = FirstError(returns)
                /\ pc' = "mark"
           ELSE /\ so_number' = S_NoOrderNumber
                /\ pc' = "mark"
    /\ result' = None
    /\ UNCHANGED <<rows, user_id, groups, gi, orders_created, orders_failed,
                   processed_rows, args, exc, calls, retval>>

\* The rest of call_bapi_salesorder_create up to its next backend call or
\* its return.
Interpret ==
    /\ pc = "returned"
    /\ UNCHANGED <<enrich_vars, format_vars, handler_vars>>
    /\ LET num == Strip(Get(result, "SALESDOCUMENT", <<>>))
           returns == Get(result, "RETURN", <<>>)
       IN  IF HasError(returns)
           THEN /\ so_number' = FirstError(returns)
                /\ pc' = "mark"
           ELSE IF num # <<>>
           THEN /\ so_number' = num
                /\ pc' = "commit"
           ELSE /\ so_number' = S_NoOrderNumber
                /\ pc' = "mark"
    /\ result' = None
    /\ UNCHANGED <<rows, user_id, groups, gi, orders_created, orders_failed,
                   processed_rows, args, exc, calls, retval>>

\* conn.call('BAPI_TRANSACTION_COMMIT', WAIT='X')
Commit(outcome) ==
    /\ pc = "commit"
    /\ UNCHANGED <<enrich_vars, format_vars, handler_vars>>
    /\ calls' = Append(calls, [fn |-> "BAPI_TRANSACTION_COMMIT",
                               group |-> gi, args |-> [WAIT |-> "X"],
                               outcome |-> outcome])
    /\ IF outcome.raised
       THEN /\ exc' = outcome.msg
            /\ pc' = "except"
            /\ so_number' = <<>>
       ELSE /\ pc' = "mark"
            /\ UNCHANGED <<exc, so_number>>
    /\ UNCHANGED <<rows, user_id, groups, gi, orders_created, orders_failed,
                   processed_rows, args, result, retval>>

\* call_bapi_salesorder_create returned so_number: the if/else of the loop
\* body and processed_rows.extend.
Mark ==
    /\ pc = "mark"
    /\ UNCHANGED <<enrich_vars, format_vars, handler_vars>>
    /\ IF so_number # <<>> /\ ~StartsWith(so_number, S_Error)
       THEN /\ orders_created' = orders_created + 1
            /\ rows' = MarkRows(rows, groups[gi].rows, so_number, S_Created)
            /\ UNCHANGED orders_failed
       ELSE /\ orders_failed' = orders_failed + 1
            /\ rows' = MarkRows(rows, groups[gi].rows, <<>>,
                                IF so_number # <<>> THEN so_number ELSE S_ErrorUnknown)
            /\ UNCHANGED orders_created
    /\ processed_rows' = processed_rows \o groups[gi].rows
    /\ so_number' = <<>>
    /\ gi' = gi + 1
    /\ pc' = "loop"
    /\ UNCHANGED <<user_id, groups, args, result, exc, calls, retval>>

\* Except without the orders_failed increment.
ExceptNoCount ==
    /\ pc = "except"
    /\ UNCHANGED <<enrich_vars, format_vars, handler_vars>>
    /\ rows' = MarkRows(rows, groups[gi].rows, <<>>, S_ErrorColon \o exc)
    /\ processed_rows' = processed_rows \o groups[gi].rows
    /\ exc' = <<>>
    /\ gi' = gi + 1
    /\ pc' = "loop"
    /\ UNCHANGED <<user_id, groups, orders_created, orders_failed, args, result,
                   so_number, calls, retval>>

\* Except writing the error to every row of the request.
ExceptAllRows ==
    /\ pc = "except"
    /\ UNCHANGED <<enrich_vars, format_vars, handler_vars>>
    /\ orders_failed' = orders_failed + 1
    /\ rows' = MarkRows(rows, [i \in 1..Len(rows) |-> i], <<>>, S_ErrorColon \o exc)
    /\ processed_rows' = processed_rows \o groups[gi].rows
    /\ exc' = <<>>
    /\ gi' = gi + 1
    /\ pc' = "loop"
    /\ UNCHANGED <<user_id, groups, orders_created, args, result, so_number,
                   calls, retval>>

\* Except with processed_rows.extend left inside the try block.
ExceptNoExtend ==
    /\ pc = "except"
    /\ UNCHANGED <<enrich_vars, format_vars, handler_vars>>
    /\ orders_failed' = orders_failed + 1
    /\ rows' = MarkRows(rows, groups[gi].rows, <<>>, S_ErrorColon \o exc)
    /\ exc' = <<>>
    /\ gi' = gi + 1
    /\ pc' = "loop"
    /\ UNCHANGED <<user_id, groups, orders_created, processed_rows, args, result,
                   so_number, calls, retval>>

\* Except that runs the same group again.
ExceptRetry ==
    /\ pc = "except"
    /\ UNCHANGED <<enrich_vars, format_vars, handler_vars>>
    /\ orders_failed' = orders_failed + 1
    /\ rows' = MarkRows(rows, groups[gi].rows, <<>>, S_ErrorColon \o exc)
    /\ exc' = <<>>
    /\ pc' = "loop"
    /\ UNCHANGED <<user_id, groups, gi, orders_created, processed_rows, args,
                   result, so_number, calls, retval>>

\* except Exception as e: ... and processed_rows.extend.
Except ==
    /\ pc = "except"
    /\ UNCHANGED <<enrich_vars, format_vars, handler_vars>>
    /\ orders_failed' = orders_failed + 1
    /\ rows' = MarkRows(rows, groups[gi].rows, <<>>, S_ErrorColon \o exc)
    /\ processed_rows' = processed_rows \o groups[gi].rows
    /\ exc' = <<>>
    /\ gi' = gi + 1
    /\ pc' = "loop"
    /\ UNCHANGED <<user_id, groups, orders_created, args, result, so_number,
                   calls, retval>>

\* The loop is over: the result dict.
Return ==
    /\ pc = "loop"
    /\ UNCHANGED <<enrich_vars, format_vars, handler_vars>>
    /\ gi > Len(groups)
    /\ retval' = [success          |-> TRUE,
                  orders_created   |-> orders_created,
                  orders_failed    |-> orders_failed,
                  groups_processed |-> Len(groups),
                  rows             |-> processed_rows]
    /\ pc' = "done"
    /\ UNCHANGED <<rows, user_id, groups, gi, orders_created, orders_failed,
                   processed_rows, args, result, so_number, exc, calls>>

Next ==
    \/ \E input \in Inputs, uid \in UserIds : Call(input, uid)
    \/ Build
    \/ \E outcome \in SubmitOutcomes : Submit(outcome)
    \/ Interpret
    \/ \E outcome \in CommitOutcomes : Commit(outcome)
    \/ Mark
    \/ Except
    \/ Return

Spec == Init /\ [][Next]_vars

\* The same machine under a second name: the claims about the payloads and
\* about the order of the groups are checked in runs of their own.
SpecPayloads == Init /\ [][Next]_vars

\* ------------------------------------------------- vocabulary of the claims
RowIds == 1..Len(rows)

GroupIds == 1..Len(groups)

\* The (augru, sold_to, ship_to) triple of a row, field by field.
Triple(row) ==
    <<Get(row, "augru", <<>>), Get(row, "sold_to", <<>>), Get(row, "ship_to", <<>>)>>

InGroup(i, g) == \E k \in 1..Len(groups[g].rows) : groups[g].rows[k] = i

SameGroup(i, j) == \E g \in GroupIds : InGroup(i, g) /\ InGroup(j, g)

SalesOrderOf(i) == Get(rows[i], "sales_order", None)

StatusOf(i) == Get(rows[i], "status", None)

\* Positions in the call log of the create / commit calls made for group g.
SubmitCalls(g) ==
    {k \in 1..Len(calls) :
        calls[k].fn = "BAPI_SALESORDER_CREATEFROMDAT2" /\ calls[k].group = g}

CommitCalls(g) ==
    {k \in 1..Len(calls) :
        calls[k].fn = "BAPI_TRANSACTION_COMMIT" /\ calls[k].group = g}

\* The create call for group g returned a response.
Answered(k) == ~calls[k].outcome.raised

AnswerOf(k) == calls[k].outcome.result

\* The response carries a return message of type E or A.
Rejected(k) ==
    /\ Answered(k)
    /\ \E m \in 1..Len(AnswerOf(k).RETURN) : AnswerOf(k).RETURN[m].TYPE \in {"E", "A"}

\* The first E/A message of a rejected response.
RejectionText(k) ==
    LET r == AnswerOf(k).RETURN
        first == CHOOSE m \in 1..Len(r) :
                    /\ r[m].TYPE \in {"E", "A"}
                    /\ \A n \in 1..(m - 1) : r[n].TYPE \notin {"E", "A"}
    IN  r[first].MESSAGE

\* The response is clean and carries an order number.
Accepted(k) ==
    /\ Answered(k)
    /\ ~Rejected(k)
    /\ Strip(AnswerOf(k).SALESDOCUMENT) # <<>>

\* Building the payload of group g raises.
BuildFails(g) == BuildPayload(Deref(rows, groups[g].rows), user_id).raised

\* Processing of group g raised an exception, with this message.
GroupRaised(g) ==
    \/ \E k \in SubmitCalls(g) \cup CommitCalls(g) : calls[k].outcome.raised
    \/ BuildFails(g)

RaisedMsg(g) ==
    IF BuildFails(g)
    THEN BuildPayload(Deref(rows, groups[g].rows), user_id).msg
    ELSE calls[CHOOSE k \in SubmitCalls(g) \cup CommitCalls(g) :
                    calls[k].outcome.raised].outcome.msg

\* Group g is past its loop iteration.
Processed(g) == pc = "done" \/ (pc # "idle" /\ g < gi)

\* ------------------------------------------------------------------ claims

\* C1: after create_sales_orders returns, any two rows with the same
\* (augru, sold_to, ship_to) triple carry the same sales_order and the same
\* status, whatever happened to their group.
C1_GroupAtomicity ==
    pc = "done" =>
        \A i, j \in RowIds :
            Triple(rows[i]) = Triple(rows[j]) =>
                /\ "sales_order" \in DOMAIN rows[i]
                /\ SalesOrderOf(i) = SalesOrderOf(j)
                /\ StatusOf(i) = StatusOf(j)

\* A two-row group was created and another group failed.
C1_Witness ==
    /\ pc = "done"
    /\ \E i, j \in RowIds :
          /\ i # j
          /\ rows[i].material # rows[j].material
          /\ Triple(rows[i]) = Triple(rows[j])
          /\ StatusOf(i) = S_Created
    /\ \E i \in RowIds : StartsWith(StatusOf(i), S_ErrorColon)

\* C2: orders_created + orders_failed == groups_processed in the result,
\* groups_processed being the number of distinct grouping keys; every
\* finished loop iteration has added one to exactly one counter.
C2_CountersAddUp ==
    /\ pc # "idle" => orders_created + orders_failed = gi - 1
    /\ pc = "done" =>
          /\ retval.orders_created + retval.orders_failed = retval.groups_processed
          /\ retval.groups_processed = Cardinality({GroupKey(rows[i]) : i \in RowIds})

\* Both counters are non-zero in a returned result.
C2_Witness ==
    /\ pc = "done"
    /\ retval.orders_created > 0
    /\ retval.orders_failed > 0
    /\ \E g \in GroupIds : GroupRaised(g)

\* C3: a commit is issued for a group only after its create call returned
\* a non-empty order number and no E/A message, and before any row of the
\* group is marked 'Created'; a rejected, numberless or raising create call
\* is never followed by a commit for its group.
C3_CommitOnlyAfterSuccess ==
    /\ \A k \in 1..Len(calls) :
          calls[k].fn = "BAPI_TRANSACTION_COMMIT" =>
              \E j \in 1..(k - 1) :
                  /\ j \in SubmitCalls(calls[k].group)
                  /\ Accepted(j)
    /\ \A g \in GroupIds :
          (\E j \in SubmitCalls(g) :
               \/ ~Answered(j)
               \/ Rejected(j)
               \/ AnswerOf(j).SALESDOCUMENT = <<>>)
             => CommitCalls(g) = {}
    /\ \A g \in GroupIds : \A i \in RowIds :
          (/\ InGroup(i, g)
           /\ "sales_order" \in DOMAIN rows[i]
           /\ StatusOf(i) = S_Created)
             => CommitCalls(g) # {}

\* The commit of a group has been issued and its rows are not marked yet.
C3_Witness ==
    /\ pc = "mark"
    /\ CommitCalls(gi) # {}
    /\ \A i \in RowIds : InGroup(i, gi) => StatusOf(i) = S_Ready
    /\ \E g \in GroupIds : g < gi /\ SubmitCalls(g) # {} /\ CommitCalls(g) = {}

\* What the rows of a group g that did not raise must show, from g's own
\* response alone.
OwnSalesOrder(g) ==
    LET k == CHOOSE j \in SubmitCalls(g) : TRUE
    IN  IF Accepted(k) /\ ~StartsWith(Strip(AnswerOf(k).SALESDOCUMENT), S_Error)
        THEN Strip(AnswerOf(k).SALESDOCUMENT)
        ELSE <<>>

OwnStatus(g) ==
    LET k == CHOOSE j \in SubmitCalls(g) : TRUE
    IN  IF Rejected(k) THEN S_ErrorColon \o RejectionText(k)
        ELSE IF ~Accepted(k) THEN S_NoOrderNumber
        ELSE IF StartsWith(Strip(AnswerOf(k).SALESDOCUMENT), S_Error)
             THEN Strip(AnswerOf(k).SALESDOCUMENT)
        ELSE S_Created

\* C4: a group whose processing raises gets sales_order '' and
\* 'Error: <message>' on its own rows only; every other group is still
\* submitted and its rows and its counter contribution depend on its own
\* response alone; the call returns normally.
C4_FailureIsolation ==
    pc = "done" =>
        LET raised  == [g \in GroupIds |-> GroupRaised(g)]
            created == {g \in GroupIds : ~raised[g] /\ OwnStatus(g) = S_Created}
        IN  /\ \A g \in GroupIds : \A i \in RowIds :
                  InGroup(i, g) =>
                      IF raised[g]
                      THEN /\ SalesOrderOf(i) = <<>>
                           /\ StatusOf(i) = S_ErrorColon \o RaisedMsg(g)
                      ELSE /\ SalesOrderOf(i) = OwnSalesOrder(g)
                           /\ StatusOf(i) = OwnStatus(g)
            /\ \A g \in GroupIds : Cardinality(SubmitCalls(g)) # 1 => BuildFails(g)
            /\ retval.orders_created = Cardinality(created)
            /\ retval.orders_failed = Cardinality(GroupIds \ created)

\* A group raised between two groups that were created.
C4_Witness ==
    /\ pc = "done"
    /\ \E f, g, h \in GroupIds :
          /\ f < g /\ g < h
          /\ GroupRaised(g)
          /\ ~GroupRaised(f) /\ OwnStatus(f) = S_Created
          /\ ~GroupRaised(h) /\ OwnStatus(h) = S_Created

\* C5: a response with an E or A message fails the whole group, order
\* number or not: every row gets sales_order '' and 'Error: <that message>',
\* the group counts as failed and nothing is committed.
C5_RejectedGroupFails ==
    /\ \A g \in GroupIds : \A k \in SubmitCalls(g) :
          Rejected(k) =>
              /\ CommitCalls(g) = {}
              /\ Processed(g) =>
                    \A i \in RowIds :
                        InGroup(i, g) =>
                            /\ SalesOrderOf(i) = <<>>
                            /\ StatusOf(i) = S_ErrorColon \o RejectionText(k)
    /\ pc # "idle" =>
          orders_failed >=
              Cardinality({g \in GroupIds :
                              Processed(g) /\ \E k \in SubmitCalls(g) : Rejected(k)})

\* A rejected response that carried an order number, and one of type A.
C5_Witness ==
    /\ pc = "done"
    /\ \E g \in GroupIds : \E k \in SubmitCalls(g) :
          /\ Rejected(k)
          /\ AnswerOf(k).SALESDOCUMENT # <<>>
          /\ Len(groups[g].rows) > 1
    /\ \E g \in GroupIds : \E k \in SubmitCalls(g) :
          /\ Rejected(k)
          /\ RejectionText(k) = <<"a", "b", "o", "r", "t">>

\* C6 (as claimed): a clean response with a non-empty order number, once
\* its commit has returned, leaves every row of the group with that order
\* number (trimmed) and status 'Created', whatever the order number is.
C6_AcceptedGroupCreated ==
    \A g \in GroupIds : \A k \in SubmitCalls(g) :
        (/\ Accepted(k)
         /\ Processed(g)
         /\ \A c \in CommitCalls(g) : ~calls[c].outcome.raised)
          => /\ CommitCalls(g) # {}
             /\ \A i \in RowIds :
                   InGroup(i, g) =>
                       /\ SalesOrderOf(i) = Strip(AnswerOf(k).SALESDOCUMENT)
                       /\ StatusOf(i) = S_Created

\* C7: the returned 'rows' list holds every input row exactly once.
C7_EveryRowExactlyOnce ==
    pc = "done" =>
        /\ Len(retval.rows) = Len(rows)
        /\ \A i \in RowIds :
              Cardinality({k \in 1..Len(retval.rows) : retval.rows[k] = i}) = 1

\* The rows come back in another order than they came in, and a group
\* raised.
C7_Witness ==
    /\ pc = "done"
    /\ Len(rows) >= 3
    /\ retval.rows # [i \in 1..Len(rows) |-> i]
    /\ \E g \in GroupIds : GroupRaised(g)

\* A row as enrichment left it after an error: error status, never given a
\* sales_order.
EnrichmentFailed(row) ==
    /\ StartsWith(Get(row, "status", <<>>), S_ErrorColon)
    /\ "sales_order" \notin DOMAIN row

\* C8 (as claimed): no step of create_sales_orders changes a row that came
\* in with an enrichment error status.
C8_ErrorRowsUntouched ==
    [][\A i \in RowIds : EnrichmentFailed(rows[i]) => rows'[i] = rows[i]]_vars

\* C9 (as claimed): two rows are in the same group exactly when their
\* (augru, sold_to, ship_to) triples are equal field by field.
C9_GroupIffSameTriple ==
    pc # "idle" =>
        \A i, j \in RowIds :
            SameGroup(i, j) <=> Triple(rows[i]) = Triple(rows[j])

NumSubmitCalls ==
    Cardinality({k \in 1..Len(calls) : calls[k].fn = "BAPI_SALESORDER_CREATEFROMDAT2"})

\* C10: at most one create call per group, so never more create calls than
\* distinct grouping keys; a failed group is not submitted again.
C10_AtMostOneSubmitPerGroup ==
    /\ \A g \in GroupIds : Cardinality(SubmitCalls(g)) <= 1
    /\ NumSubmitCalls <= Cardinality({GroupKey(rows[i]) : i \in RowIds})
    /\ \A k \in 1..Len(calls) : calls[k].group \in GroupIds

\* Every group was submitted once although one was rejected and another
\* raised.
C10_Witness ==
    /\ pc = "done"
    /\ NumSubmitCalls = Len(groups)
    /\ \E g \in GroupIds : \E k \in SubmitCalls(g) : Rejected(k)
    /\ \E g \in GroupIds : \E k \in SubmitCalls(g) : ~Answered(k)

\* A row becomes an order line: material not blank and quantity above zero.
Qualifies(row) ==
    /\ Strip(Get(row, "material", <<>>)) # <<>>
    /\ Float(Get(row, "material_qty", <<"0">>)) > 0

\* The rows of group g that qualify, in the group's row order.
IncludedRows(g) ==
    LET Test(i) == Qualifies(rows[i])
    IN  SelectSeq(groups[g].rows, Test)

\* C11: the line items of a submitted payload are exactly the group's
\* qualifying rows in the group's row order, the k-th of them numbered 10*k;
\* skipped rows use up no number and do not keep the group from being
\* submitted.
C11_ItemsAreQualifyingRows ==
    /\ \A g \in GroupIds : \A c \in SubmitCalls(g) :
          LET items == calls[c].args.ORDER_ITEMS_IN
              inc   == IncludedRows(g)
          IN  /\ Len(items) = Len(inc)
              /\ \A k \in 1..Len(inc) :
                    /\ items[k].ITM_NUMBER = ZFill(NatToStr(10 * k), 6)
                    /\ items[k].MATERIAL = Strip(rows[inc[k]].material)
                    /\ items[k].REF_1 = Take(Get(rows[inc[k]], "equipment_id", <<>>), 12)
                    /\ items[k].TARGET_QTY = Float(rows[inc[k]].material_qty)
    /\ \A g \in GroupIds :
          (Processed(g) /\ SubmitCalls(g) = {}) => BuildFails(g)

\* A group whose first row was skipped was submitted with two items, and
\* was created.
C11_Witness ==
    /\ pc = "done"
    /\ \E g \in GroupIds : \E c \in SubmitCalls(g) :
          /\ ~Qualifies(rows[groups[g].rows[1]])
          /\ Len(calls[c].args.ORDER_ITEMS_IN) = 2
          /\ StatusOf(groups[g].rows[1]) = S_Created

\* C17: groups are processed in the order in which their keys first appear
\* in the input, one after another: every backend call of a group comes
\* before every call of a later group, and the rows of a group keep their
\* input order.
C17_FirstSeenOrder ==
    pc # "idle" =>
        /\ LET keys == [i \in RowIds |-> GroupKey(rows[i])]
           IN  \A g \in GroupIds :
                   /\ keys[groups[g].rows[1]] = groups[g].key
                   /\ \A j \in 1..(groups[g].rows[1] - 1) : keys[j] # groups[g].key
        /\ \A g, h \in GroupIds : g < h => groups[g].rows[1] < groups[h].rows[1]
        /\ \A g \in GroupIds : \A k \in 1..(Len(groups[g].rows) - 1) :
              groups[g].rows[k] < groups[g].rows[k + 1]
        /\ \A j, k \in 1..Len(calls) : j < k => calls[j].group <= calls[k].group
        /\ \A g \in GroupIds : \A k \in SubmitCalls(g) \cup CommitCalls(g) :
              ~Processed(g) => g = gi
        /\ \A k \in 1..Len(processed_rows) : \A g \in GroupIds :
              InGroup(processed_rows[k], g) => Processed(g)

\* Two groups whose rows interleave in the input were both submitted and
\* committed, the one seen first before the other.
C17_Witness ==
    /\ pc = "done"
    /\ Len(groups) >= 2
    /\ groups[1].rows = <<1, 3>>
    /\ groups[2].rows = <<2>>
    /\ CommitCalls(1) # {}
    /\ CommitCalls(2) # {}

\* C18: in every submitted payload the change indicators mirror the data:
\* ORD_REASON is flagged exactly when the header has it, which is exactly
\* when the first row's augru is non-empty; the item-flag, schedule and
\* schedule-flag tables have one entry per item, with the item's number, in
\* the item order, schedule line '0001'; BATCH is flagged exactly when the
\* item carries a batch.
C18_FlagsMirrorData ==
    \A g \in GroupIds : \A c \in SubmitCalls(g) :
        LET a        == calls[c].args
            header   == a.ORDER_HEADER_IN
            header_x == a.ORDER_HEADER_INX
            items    == a.ORDER_ITEMS_IN
            items_x  == a.ORDER_ITEMS_INX
            scheds   == a.ORDER_SCHEDULES_IN
            scheds_x == a.ORDER_SCHEDULES_INX
            first_row == rows[groups[g].rows[1]]
        IN  /\ ("ORD_REASON" \in DOMAIN header) <=> (Get(first_row, "augru", <<>>) # <<>>)
            /\ ("ORD_REASON" \in DOMAIN header_x) <=> ("ORD_REASON" \in DOMAIN header)
            /\ DOMAIN header_x = DOMAIN header \cup {"UPDATEFLAG"}
            /\ \A f \in DOMAIN header : header_x[f] = "X"
            /\ Len(items_x) = Len(items)
            /\ Len(scheds) = Len(items)
            /\ Len(scheds_x) = Len(items)
            /\ \A k \in 1..Len(items) :
                  /\ items_x[k].ITM_NUMBER = items[k].ITM_NUMBER
                  /\ scheds[k].ITM_NUMBER = items[k].ITM_NUMBER
                  /\ scheds_x[k].ITM_NUMBER = items[k].ITM_NUMBER
                  /\ scheds[k].SCHED_LINE = <<"0", "0", "0", "1">>
                  /\ scheds_x[k].SCHED_LINE = <<"0", "0", "0", "1">>
                  /\ ("BATCH" \in DOMAIN items_x[k]) <=> ("BATCH" \in DOMAIN items[k])
                  /\ DOMAIN items_x[k] = DOMAIN items[k] \cup {"UPDATEFLAG"}

\* One payload had an item with a batch after one without and an order
\* reason; another payload had no order reason.
C18_Witness ==
    /\ \E c \in 1..Len(calls) :
          /\ calls[c].fn = "BAPI_SALESORDER_CREATEFROMDAT2"
          /\ "ORD_REASON" \in DOMAIN calls[c].args.ORDER_HEADER_IN
          /\ Len(calls[c].args.ORDER_ITEMS_IN) = 2
          /\ "BATCH" \notin DOMAIN calls[c].args.ORDER_ITEMS_IN[1]
          /\ "BATCH" \in DOMAIN calls[c].args.ORDER_ITEMS_IN[2]
    /\ \E c \in 1..Len(calls) :
          /\ calls[c].fn = "BAPI_SALESORDER_CREATEFROMDAT2"
          /\ "ORD_REASON" \notin DOMAIN calls[c].args.ORDER_HEADER_IN
          /\ Len(calls[c].args.ORDER_ITEMS_IN) = 1

\* No row of group g qualifies as an order line.
NoLineGroup(g) == \A k \in 1..Len(groups[g].rows) : ~Qualifies(rows[groups[g].rows[k]])

\* C19 (as claimed): a group without any qualifying row is still submitted,
\* with empty item and schedule tables; when the response is clean and
\* carries an order number (and the commit returns), every row of the group
\* ends with that order number and status 'Created'.
C19_EmptyOrderCreated ==
    \A g \in GroupIds :
        (Processed(g) /\ ~BuildFails(g) /\ NoLineGroup(g)) =>
            /\ Cardinality(SubmitCalls(g)) = 1
            /\ \A c \in SubmitCalls(g) :
                  /\ calls[c].args.ORDER_ITEMS_IN = <<>>
                  /\ calls[c].args.ORDER_SCHEDULES_IN = <<>>
                  /\ (Accepted(c) /\ \A m \in CommitCalls(g) : ~calls[m].outcome.raised) =>
                        /\ CommitCalls(g) # {}
                        /\ \A i \in RowIds :
                              InGroup(i, g) =>
                                  /\ SalesOrderOf(i) = Strip(AnswerOf(c).SALESDOCUMENT)
                                  /\ StatusOf(i) = S_Created

\* ------------------------------------ format_partner_number on its own
\* Every string of up to MaxPartnerLen characters over digits, a letter and
\* a blank, and strings of 8 to 12 characters around the padding width.
FormatInputs ==
    SeqsUpTo({"0", "7", "A", " "}, MaxPartnerLen)
      \cup {lead \o Zeros(k) \o tail :
               lead \in {<<>>, <<" ">>},
               k \in 7..10,
               tail \in {<<"7">>, <<"7", " ">>, <<"7", "1">>, <<"A">>, <<"-", "1">>}}

InitFormat ==
    /\ PipelineIdle
    /\ HandlerIdle
    /\ partner \in FormatInputs
    /\ formatted = <<>>

\* format_partner_number(partner)
FormatPartner ==
    /\ formatted = <<>>
    /\ formatted' = <<format_partner_number(partner)>>
    /\ UNCHANGED <<pc, rows, result, exc, calls, retval, order_vars, enrich_vars,
                   partner, handler_vars>>

\* format_partner_number applied to what it returned last.
FormatAgain ==
    /\ formatted # <<>>
    /\ Len(formatted) < MaxFormatCalls
    /\ formatted' = Append(formatted, format_partner_number(formatted[Len(formatted)]))
    /\ UNCHANGED <<pc, rows, result, exc, calls, retval, order_vars, enrich_vars,
                   partner, handler_vars>>

NextFormat ==
    \/ FormatPartner
    \/ FormatAgain

SpecFormat == InitFormat /\ [][NextFormat]_vars

\* C16: format_partner_number is idempotent; a zero-padded 10-digit string
\* and a trimmed non-numeric string come back unchanged, an all-digit string
\* shorter than 10 comes back left-padded with zeros to length 10, a blank
\* or empty string comes back as ''; a non-numeric string is only trimmed.
C16_FormatIdempotent ==
    /\ \A k \in 2..Len(formatted) : formatted[k] = formatted[1]
    /\ formatted # <<>> =>
          LET out  == formatted[1]
              core == Strip(partner)
              allDigits == core # <<>> /\ \A i \in 1..Len(core) : core[i] \in Digits
          IN  /\ (\A i \in 1..Len(partner) : partner[i] \in Whitespace) => out = <<>>
              /\ (core # <<>> /\ ~allDigits) => out = core
              /\ (allDigits /\ Len(core) >= 10) => out = core
              /\ (allDigits /\ Len(core) < 10) =>
                    /\ Len(out) = 10
                    /\ SubSeq(out, 11 - Len(core), 10) = core
                    /\ \A i \in 1..(10 - Len(core)) : out[i] = "0"

\* A short numeric string given with a blank was padded, and formatting the
\* result again has been done.
C16_Witness ==
    /\ Len(formatted) = 2
    /\ partner # Strip(partner)
    /\ Len(partner) < 10
    /\ Len(formatted[1]) = 10

\* ------------------------------------------------------------------ config
CONTROLLING_AREA == <<"1", "0", "0", "0">>

\* str.upper() on the letters the model uses
UpperChar(c) ==
    CASE c = "u" -> "U" [] c = "s" -> "S" [] c = "z" -> "Z" [] OTHER -> c

Upper(s) == [i \in 1..Len(s) |-> UpperChar(s[i])]

EmptyDict == [x \in {} |-> x]

PLANT_CONFIG ==
    (<<"U", "S", "0", "1">> :>
        [sales_org |-> <<"U", "S", "0", "1">>,
         sold_to   |-> <<"1", "6", "6">>,
         ship_to   |-> <<"M", "0", "0", "0", "1", "0", "0", "1", "E">>])
    @@
    (<<"U", "S", "6", "5">> :>
        [sales_org |-> <<"U", "S", "6", "5">>,
         sold_to   |-> <<"1">>,
         ship_to   |-> <<"M", "0", "0", "0", "1", "0", "0", "1", "X", "I">>])

get_plant_config(plant) ==
    IF plant # <<>> THEN Get(PLANT_CONFIG, Upper(plant), EmptyDict) ELSE EmptyDict

\* ---------------------------------------------------- enrich_equipment_data
\* Largest number of rows in one enrich_equipment_data call.
MaxEnrichRows == 3

\* A row as the upload handler builds it from the file.
UploadRow(equipment_id, row_number) ==
    [equipment_id |-> equipment_id,
     material     |-> <<"M", "1">>,
     material_qty |-> <<"5">>,
     row_number   |-> row_number]

EquipmentIds == {<<>>, <<" ", " ">>, <<" ", "E", "1">>}

\* Every list of up to n uploaded rows, numbered 1, 2, ...
RECURSIVE UploadsUpTo(_)
UploadsUpTo(n) ==
    IF n = 0 THEN {<<>>}
    ELSE LET shorter == UploadsUpTo(n - 1)
         IN  shorter \cup {Append(q, UploadRow(e, n)) :
                             q \in {r \in shorter : Len(r) = n - 1}, e \in EquipmentIds}

EnrichInputs == UploadsUpTo(MaxEnrichRows)

\* What BAPI_EQUI_DETAILS may answer.
EquiResults ==
    { [RETURN |-> [TYPE |-> "E", MESSAGE |-> <<"n", "o", "t", " ", "f", "o", "u", "n", "d">>]],
      [RETURN |-> [TYPE |-> "S", MESSAGE |-> <<>>],
       DATA_GENERAL_EXP |-> [PLANPLANT |-> <<"u", "s", "0", "1", " ">>, MAINTPLANT |-> <<>>,
                             COSTCENTER |-> <<"C", "1", " ">>, COMPANYCODE |-> <<"1", "0", "0", "0">>]],
      [RETURN |-> EmptyDict,
       DATA_GENERAL_EXP |-> [PLANPLANT |-> <<>>, MAINTPLANT |-> <<"Z", "Z", "9", "9">>,
                             COSTCENTER |-> <<"C", "2">>, COMPANYCODE |-> <<>>,
                             BUKRS |-> <<"2", "0", "0", "0">>]],
      [DATA_GENERAL_EXP |-> [PLANPLANT |-> <<"U", "S", "6", "5">>,
                             COSTCENTER |-> <<>>, COMPANYCODE |-> <<"1", "0", "0", "0">>]] }

EquiOutcomes == {Returned(r) : r \in EquiResults} \cup {Raised(S_Timeout)}

\* What Z_MATREQ_COST_CENTER may answer.
CostCenterResults ==
    { [T_COST_CENTER |-> <<>>],
      [T_COST_CENTER |-> << [AUG |-> <<"A", "1", " ">>, LTEXT |-> <<"T", "e", "x", "t">>],
                            [AUG |-> <<"A", "2">>, LTEXT |-> <<>>] >>] }

CostCenterOutcomes == {Returned(r) : r \in CostCenterResults} \cup {Raised(S_Timeout)}

\* a or b, on strings
Or(a, b) == IF a # <<>> THEN a ELSE b

\* call_bapi_equi_details after conn.call returned
EquiData(res) ==
    LET ret == Get(res, "RETURN", EmptyDict)
        data_general == Get(res, "DATA_GENERAL_EXP", EmptyDict)
        plant == Or(Get(data_general, "PLANPLANT", <<>>), Get(data_general, "MAINTPLANT", <<>>))
        cost_center == Get(data_general, "COSTCENTER", <<>>)
        company_code == Or(Get(data_general, "COMPANYCODE", <<>>), Get(data_general, "BUKRS", <<>>))
    IN  IF Get(ret, "TYPE", "") \in {"E", "A"}
        THEN [error |-> Get(ret, "MESSAGE", S_UnknownError)]
        ELSE [plant        |-> Strip(plant),
              cost_center  |-> Strip(cost_center),
              company_code |-> Strip(company_code)]

\* call_z_matreq_cost_center after conn.call returned or raised
CostCenterData(outcome) ==
    LET t_cost_center == IF outcome.raised THEN <<>> ELSE Get(outcome.result, "T_COST_CENTER", <<>>)
    IN  IF t_cost_center # <<>>
        THEN [augru |-> Strip(Get(t_cost_center[1], "AUG", <<>>)),
              ltext |-> Strip(Get(t_cost_center[1], "LTEXT", <<>>))]
        ELSE [augru |-> <<>>, ltext |-> <<>>]

\* Lines 58 to 70: the fields taken from the equipment and the plant table.
Populate(row, equip_data) ==
    LET plant        == Get(equip_data, "plant", <<>>)
        cost_center  == Get(equip_data, "cost_center", <<>>)
        company_code == Get(equip_data, "company_code", <<>>)
        plant_upper  == IF plant # <<>> THEN Upper(plant) ELSE <<>>
        config       == get_plant_config(plant_upper)
    IN  [plant        |-> plant,
         cost_center  |-> cost_center,
         company_code |-> company_code,
         sales_org    |-> Get(config, "sales_org", plant_upper),
         dist_channel |-> FIXED_DIST_CHANNEL,
         division     |-> FIXED_DIVISION,
         sold_to      |-> Get(config, "sold_to", <<>>),
         ship_to      |-> Get(config, "ship_to", <<>>)] @@ row

\* rows[i] = row
SetRow(rs, i, row) == [rs EXCEPT ![i] = row]

\* enrich_equipment_data is called.
Enrich(input) ==
    /\ pc = "idle"
    /\ rows' = input
    /\ enriched' = <<>>
    /\ ei' = 1
    /\ pc' = "e_row"
    /\ UNCHANGED <<result, exc, calls, retval, order_vars, format_vars, handler_vars>>

\* EnrichRow without the strip() of the equipment id.
EnrichRowNoStrip ==
    /\ pc = "e_row"
    /\ ei <= Len(rows)
    /\ IF Get(rows[ei], "equipment_id", <<>>) = <<>>
       THEN /\ rows' = SetRow(rows, ei, Put(rows[ei], "status", S_NoEquipmentId))
            /\ enriched' = Append(enriched, ei)
            /\ ei' = ei + 1
            /\ pc' = "e_row"
       ELSE /\ pc' = "e_equi"
            /\ UNCHANGED <<rows, enriched, ei>>
    /\ UNCHANGED <<result, exc, calls, retval, order_vars, format_vars, handler_vars>>

\* EnrichRow that does not append a row without equipment id.
EnrichRowDropsEmpty ==
    /\ pc = "e_row"
    /\ ei <= Len(rows)
    /\ IF Strip(Get(rows[ei], "equipment_id", <<>>)) = <<>>
       THEN /\ rows' = SetRow(rows, ei, Put(rows[ei], "status", S_NoEquipmentId))
            /\ ei' = ei + 1
            /\ pc' = "e_row"
            /\ UNCHANGED enriched
       ELSE /\ pc' = "e_equi"
            /\ UNCHANGED <<rows, enriched, ei>>
    /\ UNCHANGED <<result, exc, calls, retval, order_vars, format_vars, handler_vars>>

\* A loop iteration up to its first backend call: the equipment id test.
EnrichRow ==
    /\ pc = "e_row"
    /\ ei <= Len(rows)
    /\ IF Strip(Get(rows[ei], "equipment_id", <<>>)) = <<>>
       THEN /\ rows' = SetRow(rows, ei, Put(rows[ei], "status", S_NoEquipmentId))
            /\ enriched' = Append(enriched, ei)
            /\ ei' = ei + 1
            /\ pc' = "e_row"
       ELSE /\ pc' = "e_equi"
            /\ UNCHANGED <<rows, enriched, ei>>
    /\ UNCHANGED <<result, exc, calls, retval, order_vars, format_vars, handler_vars>>

\* conn.call('BAPI_EQUI_DETAILS', ...) and what follows up to the cost
\* center call or the end of the iteration.
EquiDetails(outcome) ==
    /\ pc = "e_equi"
    /\ calls' = Append(calls,
          [fn |-> "BAPI_EQUI_DETAILS", row |-> ei,
           args |-> [EQUIPMENT |-> ZFill(Strip(Get(rows[ei], "equipment_id", <<>>)), 18)],
           outcome |-> outcome])
    /\ IF outcome.raised
       THEN /\ rows' = SetRow(rows, ei, Put(rows[ei], "status", S_ErrorColon \o outcome.msg))
            /\ enriched' = Append(enriched, ei)
            /\ ei' = ei + 1
            /\ pc' = "e_row"
       ELSE LET equip_data == EquiData(outcome.result)
                populated  == Populate(rows[ei], equip_data)
            IN  IF Get(equip_data, "error", <<>>) # <<>>
                THEN /\ rows' = SetRow(rows, ei,
                                   Put(rows[ei], "status", S_ErrorColon \o equip_data.error))
                     /\ enriched' = Append(enriched, ei)
                     /\ ei' = ei + 1
                     /\ pc' = "e_row"
                ELSE IF populated.cost_center # <<>> /\ populated.sales_org # <<>>
                THEN /\ rows' = SetRow(rows, ei, populated)
                     /\ pc' = "e_cc"
                     /\ UNCHANGED <<enriched, ei>>
                ELSE /\ rows' = SetRow(rows, ei,
                                   Put(Put(Put(populated, "augru", <<>>),
                                           "cost_center_text", <<>>),
                                       "status", S_Ready))
                     /\ enriched' = Append(enriched, ei)
                     /\ ei' = ei + 1
                     /\ pc' = "e_row"
    /\ UNCHANGED <<result, exc, retval, order_vars, format_vars, handler_vars>>

\* The call log entry of Z_MATREQ_COST_CENTER for the row at hand.
CostCenterCallEntry(outcome) ==
    [fn |-> "Z_MATREQ_COST_CENTER", row |-> ei,
     args |-> [P_COSTCENTER       |-> ZFill(rows[ei].cost_center, 10),
               P_SALESORG         |-> rows[ei].sales_org,
               P_DIST_CHANNEL     |-> FIXED_DIST_CHANNEL,
               P_DIVISION         |-> FIXED_DIVISION,
               P_CONTROLLING_AREA |-> CONTROLLING_AREA,
               P_LANGUAGE         |-> <<"E">>],
     outcome |-> outcome]

\* CostCenter in which an exception of the lookup reaches the row's
\* except clause.
CostCenterNoCatch(outcome) ==
    /\ pc = "e_cc"
    /\ calls' = Append(calls, CostCenterCallEntry(outcome))
    /\ IF outcome.raised
       THEN rows' = SetRow(rows, ei, Put(rows[ei], "status", S_ErrorColon \o outcome.msg))
       ELSE LET cc_data == CostCenterData(outcome)
            IN  rows' = SetRow(rows, ei,
                           Put(Put(Put(rows[ei], "augru", Get(cc_data, "augru", <<>>)),
                                   "cost_center_text", Get(cc_data, "ltext", <<>>)),
                               "status", S_Ready))
    /\ enriched' = Append(enriched, ei)
    /\ ei' = ei + 1
    /\ pc' = "e_row"
    /\ UNCHANGED <<result, exc, retval, order_vars, format_vars, handler_vars>>

\* call_z_matreq_cost_center and the rest of the iteration.
CostCenter(outcome) ==
    /\ pc = "e_cc"
    /\ calls' = Append(calls, CostCenterCallEntry(outcome))
    /\ LET cc_data == CostCenterData(outcome)
       IN  rows' = SetRow(rows, ei,
                      Put(Put(Put(rows[ei], "augru", Get(cc_data, "augru", <<>>)),
                              "cost_center_text", Get(cc_data, "ltext", <<>>)),
                          "status", S_Ready))
    /\ enriched' = Append(enriched, ei)
    /\ ei' = ei + 1
    /\ pc' = "e_row"
    /\ UNCHANGED <<result, exc, retval, order_vars, format_vars, handler_vars>>

\* return enriched
EnrichReturn ==
    /\ pc = "e_row"
    /\ ei > Len(rows)
    /\ retval' = enriched
    /\ pc' = "e_done"
    /\ UNCHANGED <<rows, result, exc, calls, order_vars, enrich_vars, format_vars,
                   handler_vars>>

NextEnrich ==
    \/ \E input \in EnrichInputs : Enrich(input)
    \/ EnrichRow
    \/ \E outcome \in EquiOutcomes : EquiDetails(outcome)
    \/ \E outcome \in CostCenterOutcomes : CostCenter(outcome)
    \/ EnrichReturn

SpecEnrich == Init /\ [][NextEnrich]_vars

\* Row i of the enrichment is past its loop iteration.
Enriched(i) == pc = "e_done" \/ (pc \in {"e_row", "e_equi", "e_cc"} /\ i < ei)

\* Positions in the call log of the backend calls made for row i.
EquiCalls(i) ==
    {k \in 1..Len(calls) : calls[k].fn = "BAPI_EQUI_DETAILS" /\ calls[k].row = i}

CostCenterCalls(i) ==
    {k \in 1..Len(calls) : calls[k].fn = "Z_MATREQ_COST_CENTER" /\ calls[k].row = i}

\* C12: enrich_equipment_data returns a list of the same length and in the
\* same order as its input, whatever happened to each row, and every
\* returned row has status 'Ready' or 'Error: ...'.
C12_EnrichKeepsRows ==
    /\ pc \in {"e_row", "e_equi", "e_cc"} =>
          /\ ei \in 1..(Len(rows) + 1)
          /\ enriched = [k \in 1..(ei - 1) |-> k]
    /\ pc = "e_done" =>
          /\ Len(retval) = Len(rows)
          /\ \A k \in 1..Len(retval) :
                /\ retval[k] = k
                /\ rows[retval[k]].row_number = k
                /\ "status" \in DOMAIN rows[retval[k]]
                /\ \/ rows[retval[k]].status = S_Ready
                   \/ StartsWith(rows[retval[k]].status, S_ErrorColon)

\* Three rows came back: one without equipment id, one whose lookup raised,
\* one whose cost-center lookup raised.
C12_Witness ==
    /\ pc = "e_done"
    /\ Len(retval) = 3
    /\ \E i \in RowIds : rows[i].status = S_NoEquipmentId
    /\ \E i \in RowIds : \E k \in EquiCalls(i) : calls[k].outcome.raised
    /\ \E i \in RowIds : \E k \in CostCenterCalls(i) : calls[k].outcome.raised

EnrichmentFields ==
    {"plant", "cost_center", "company_code", "sales_org", "dist_channel",
     "division", "sold_to", "ship_to", "augru", "cost_center_text"}

\* C13: a row whose equipment id is empty after trimming ends with status
\* exactly 'Error: No Equipment ID'; no backend call is made for it and no
\* enrichment field is written to it.
C13_NoEquipmentId ==
    \A i \in RowIds :
        (pc # "idle" /\ Strip(Get(rows[i], "equipment_id", <<>>)) = <<>>) =>
            /\ EquiCalls(i) = {}
            /\ CostCenterCalls(i) = {}
            /\ DOMAIN rows[i] \cap EnrichmentFields = {}
            /\ Enriched(i) => Get(rows[i], "status", <<>>) = S_NoEquipmentId

\* A row with a blank (not empty) equipment id came back after a row that
\* was looked up.
C13_Witness ==
    /\ pc = "e_done"
    /\ \E i, j \in RowIds :
          /\ i < j
          /\ EquiCalls(i) # {}
          /\ rows[j].equipment_id # <<>>
          /\ rows[j].status = S_NoEquipmentId

\* The cost-center lookup of row i failed: it raised or returned no record.
CostCenterFailed(i) ==
    \E k \in CostCenterCalls(i) :
        \/ calls[k].outcome.raised
        \/ calls[k].outcome.result.T_COST_CENTER = <<>>

\* C14: when the equipment lookup succeeded and the cost-center lookup
\* raised or returned no record, the row ends with status 'Ready', augru ''
\* and cost_center_text '', and keeps the fields derived before.
C14_CostCenterSoftFail ==
    \A i \in RowIds :
        (Enriched(i) /\ CostCenterFailed(i)) =>
            LET e    == CHOOSE k \in EquiCalls(i) : TRUE
                data == calls[e].outcome.result.DATA_GENERAL_EXP
            IN  /\ rows[i].status = S_Ready
                /\ rows[i].augru = <<>>
                /\ rows[i].cost_center_text = <<>>
                /\ rows[i].cost_center = Strip(data.COSTCENTER)
                /\ rows[i].plant \in {Strip(data.PLANPLANT), Strip(data.MAINTPLANT)}
                /\ rows[i].plant # <<>>
                /\ rows[i].company_code # <<>>
                /\ rows[i].sales_org # <<>>
                /\ {"sold_to", "ship_to"} \subseteq DOMAIN rows[i]

\* One row's cost-center lookup raised, another's returned no record.
C14_Witness ==
    /\ pc = "e_done"
    /\ \E i \in RowIds : \E k \in CostCenterCalls(i) : calls[k].outcome.raised
    /\ \E i \in RowIds : \E k \in CostCenterCalls(i) :
          /\ ~calls[k].outcome.raised
          /\ calls[k].outcome.result.T_COST_CENTER = <<>>
          /\ rows[i].sold_to = <<"1", "6", "6">>

\* ------------------------------------------- upload and create_orders: main
\* Largest number of rows in one request to a handler.
MaxHandlerRows == 2

Handlers == {"upload", "create_orders"}

\* str.lower() on the letters the model uses
LowerChar(c) ==
    CASE c = "C" -> "c" [] c = "S" -> "s" [] c = "V" -> "v" [] OTHER -> c

Lower(s) == [i \in 1..Len(s) |-> LowerChar(s[i])]

\* str.endswith
EndsWith(s, suffix) ==
    /\ Len(s) >= Len(suffix)
    /\ SubSeq(s, Len(s) - Len(suffix) + 1, Len(s)) = suffix

S_csv == <<".", "c", "s", "v">>
S_xlsx == <<".", "x", "l", "s", "x">>
S_xls == <<".", "x", "l", "s">>

RequiredCols == {"equipment_id", "material", "material_qty"}

\* The X-Session-Id header: absent, unknown, or one of the stored sessions.
HeaderSets == {EmptyDict} \cup {("X-Session-Id" :> id) : id \in {"s0", "s1", "s2"}}

\* The clock of the request: before or after the expiry of session s1.
Clocks == {1, 9}

\* An uploaded file: its name and what pandas makes of its content, a read
\* error or the columns (as line 67 leaves them) and the records.
Files ==
    {[filename |-> <<"a", ".", "t", "x", "t">>, readable |-> TRUE,
      columns |-> RequiredCols, records |-> <<>>],
     [filename |-> <<"a", ".", "C", "S", "V">>, readable |-> FALSE,
      columns |-> RequiredCols, records |-> <<>>],
     [filename |-> <<"a", ".", "x", "l", "s">>, readable |-> TRUE,
      columns |-> {"equipment_id", "material"}, records |-> <<>>]}
    \cup
    {[filename |-> <<"a", ".", "C", "S", "V">>, readable |-> TRUE,
      columns |-> RequiredCols, records |-> r] : r \in UploadsUpTo(MaxHandlerRows)}

\* A JSON value of the body that is not an object, where a row should be.
NonDictRow == [json_type |-> "number"]

IsDict(row) == "json_type" \notin DOMAIN row

\* The JSON body of a create-orders request: not JSON, no rows, rows, or
\* rows the last of which is not an object.
Bodies ==
    {[json |-> FALSE, value |-> EmptyDict], [json |-> TRUE, value |-> EmptyDict]}
    \cup {[json |-> TRUE, value |-> ("rows" :> r)] : r \in SeqsUpTo(RowPool, MaxHandlerRows)}
    \cup {[json |-> TRUE, value |-> ("rows" :> Append(r, NonDictRow))] :
             r \in SeqsUpTo(RowPool, MaxHandlerRows - 1)}

Requests ==
    {[headers |-> h, now |-> t, files |-> f, body |-> [json |-> FALSE, value |-> EmptyDict]] :
        h \in HeaderSets, t \in Clocks,
        f \in {EmptyDict} \cup {("file" :> x) : x \in Files}}
    \cup
    {[headers |-> h, now |-> t, files |-> EmptyDict, body |-> b] :
        h \in HeaderSets, t \in Clocks, b \in Bodies}

\* What lines 52-59 of create_orders (89-96 of upload) may do.
ConnectOutcomes == {"decrypt_error", "unknown_system", "connect_error", "connected"}

S_InvalidSession == <<"I", "n", "v", "a", "l", "i", "d">>
S_NoRows == <<"N", "o", " ", "r", "o", "w", "s">>
S_NoFile == <<"N", "o", " ", "f", "i", "l", "e">>
S_Unsupported == <<"U", "n", "s", "u", "p", "p", "o", "r", "t", "e", "d">>
S_MissingCols == <<"M", "i", "s", "s", "i", "n", "g">>
S_NoGet == <<"n", "o", " ", "g", "e", "t">>
S_CloseFailed == <<"c", "l", "o", "s", "e">>

HttpResponse(status_code, body) == [status_code |-> status_code, body |-> body]

ErrorResponse(status_code, msg) == HttpResponse(status_code, [error |-> msg])

\* SessionStore.get_session: the session, or None when the entity is
\* missing or expired; an expired entity is deleted.
get_session(tbl, headers, now) ==
    IF "X-Session-Id" \notin DOMAIN headers THEN None
    ELSE IF headers["X-Session-Id"] \notin DOMAIN tbl THEN None
    ELSE IF now > tbl[headers["X-Session-Id"]].expires THEN None
    ELSE LET entity == tbl[headers["X-Session-Id"]]
         IN  [user |-> entity.user, client |-> entity.client,
              system |-> Get(entity, "system", <<"P", "R", "D">>),
              password |-> entity.password]

\* The table after get_session.
TableAfterGet(tbl, headers, now) ==
    IF /\ "X-Session-Id" \in DOMAIN headers
       /\ headers["X-Session-Id"] \in DOMAIN tbl
       /\ now > tbl[headers["X-Session-Id"]].expires
    THEN [k \in DOMAIN tbl \ {headers["X-Session-Id"]} |-> tbl[k]]
    ELSE tbl

pipeline_vars ==
    <<pc, rows, result, exc, calls, retval, order_vars, enrich_vars>>

\* A request arrives at one of the two handlers.
Receive(h, req) ==
    /\ hpc = "idle"
    /\ handler' = h
    /\ request' = req
    /\ hpc' = "session"
    /\ UNCHANGED <<table, session, opens, closes, response, pipeline_vars, format_vars>>

\* Session validation: 401 unless the session is stored and not expired.
ValidateSession ==
    /\ hpc = "session"
    /\ session' = get_session(table, request.headers, request.now)
    /\ table' = TableAfterGet(table, request.headers, request.now)
    /\ IF session' = None
       THEN /\ response' = ErrorResponse(401, S_InvalidSession)
            /\ hpc' = "done"
       ELSE /\ hpc' = "input"
            /\ UNCHANGED response
    /\ UNCHANGED <<handler, request, opens, closes, pipeline_vars, format_vars>>

\* upload, lines 43 to 86: the file is read into rows.
ReadFile ==
    /\ hpc = "input"
    /\ handler = "upload"
    /\ IF "file" \notin DOMAIN request.files
       THEN response' = ErrorResponse(400, S_NoFile) /\ hpc' = "done"
       ELSE LET file == request.files["file"]
                filename == Lower(file.filename)
            IN  IF ~(\/ EndsWith(filename, S_csv)
                     \/ EndsWith(filename, S_xlsx)
                     \/ EndsWith(filename, S_xls))
                THEN response' = ErrorResponse(400, S_Unsupported) /\ hpc' = "done"
                ELSE IF ~file.readable
                THEN response' = ErrorResponse(500, S_Error) /\ hpc' = "done"
                ELSE IF ~(RequiredCols \subseteq file.columns)
                THEN response' = ErrorResponse(400, S_MissingCols) /\ hpc' = "done"
                ELSE hpc' = "connect" /\ UNCHANGED response
    /\ UNCHANGED <<handler, request, table, session, opens, closes, pipeline_vars,
                   format_vars>>

\* create_orders, lines 41 to 49: the rows of the body.
ReadBody ==
    /\ hpc = "input"
    /\ handler = "create_orders"
    /\ IF ~request.body.json
       THEN response' = ErrorResponse(500, S_Error) /\ hpc' = "done"
       ELSE IF Get(request.body.value, "rows", <<>>) = <<>>
       THEN response' = ErrorResponse(400, S_NoRows) /\ hpc' = "done"
       ELSE hpc' = "connect" /\ UNCHANGED response
    /\ UNCHANGED <<handler, request, table, session, opens, closes, pipeline_vars,
                   format_vars>>

\* Password decryption, SAPConnectionManager(system) and sap.connect: any of
\* them may raise, and then no connection exists.
Connect(outcome) ==
    /\ hpc = "connect"
    /\ IF outcome = "connected"
       THEN /\ opens' = Append(opens, Len(calls))
            /\ hpc' = "running"
            /\ UNCHANGED response
       ELSE /\ response' = ErrorResponse(500, S_Error)
            /\ hpc' = "done"
            /\ UNCHANGED opens
    /\ UNCHANGED <<handler, request, table, session, closes, pipeline_vars, format_vars>>

\* The handler is inside its try/finally around the pipeline.
Running(h) == hpc = "running" /\ handler = h

\* upload line 99: enrich_equipment_data(conn, rows) is entered.
StartEnrich ==
    /\ Running("upload")
    /\ Enrich(request.files["file"].records)

\* The enrichment runs on the open connection.
EnrichStep ==
    /\ Running("upload")
    /\ \/ EnrichRow
       \/ \E outcome \in EquiOutcomes : EquiDetails(outcome)
       \/ \E outcome \in CostCenterOutcomes : CostCenter(outcome)
       \/ EnrichReturn

\* create_orders line 62: create_sales_orders(conn, rows, session['user'])
\* is entered with rows that are all objects.
StartOrders ==
    /\ Running("create_orders")
    /\ \A k \in DOMAIN request.body.value["rows"] : IsDict(request.body.value["rows"][k])
    /\ Call(request.body.value["rows"], session.user)

\* create_sales_orders raises while grouping (line 33): a row has no get().
OrdersRaise ==
    /\ Running("create_orders")
    /\ pc = "idle"
    /\ \E k \in DOMAIN request.body.value["rows"] : ~IsDict(request.body.value["rows"][k])
    /\ pc' = "raised"
    /\ exc' = S_NoGet
    /\ UNCHANGED <<rows, result, calls, retval, order_vars, enrich_vars, format_vars,
                   handler_vars>>

\* The order pipeline runs on the open connection.
OrdersStep ==
    /\ Running("create_orders")
    /\ \/ Build
       \/ \E outcome \in SubmitOutcomes : Submit(outcome)
       \/ Interpret
       \/ \E outcome \in CommitOutcomes : Commit(outcome)
       \/ Mark
       \/ Except
       \/ Return

\* The pipeline has returned or raised.
PipelineOver == pc \in {"done", "e_done", "raised"}

\* Close that runs only when the pipeline returned: no finally clause.
CloseOnlyOnSuccess(ok) ==
    /\ hpc = "running"
    /\ PipelineOver
    /\ IF pc = "raised"
       THEN /\ hpc' = "closed"
            /\ UNCHANGED <<closes, exc>>
       ELSE /\ closes' = Append(closes, Len(calls))
            /\ IF ok
               THEN hpc' = "closed" /\ UNCHANGED exc
               ELSE hpc' = "close_raised" /\ exc' = S_CloseFailed
    /\ UNCHANGED <<pc, rows, result, calls, retval, order_vars, enrich_vars, format_vars,
                   handler, request, table, session, opens, response>>

\* finally: conn.close(), which may itself raise.
Close(ok) ==
    /\ hpc = "running"
    /\ PipelineOver
    /\ closes' = Append(closes, Len(calls))
    /\ IF ok
       THEN hpc' = "closed" /\ UNCHANGED exc
       ELSE hpc' = "close_raised" /\ exc' = S_CloseFailed
    /\ UNCHANGED <<pc, rows, result, calls, retval, order_vars, enrich_vars, format_vars,
                   handler, request, table, session, opens, response>>

\* The response after the try/finally: the result, or 500 from the outer
\* except clause when the pipeline or the close raised.
Respond ==
    /\ hpc \in {"closed", "close_raised"}
    /\ response' =
          IF hpc = "close_raised" \/ pc = "raised"
          THEN ErrorResponse(500, exc)
          ELSE IF handler = "upload"
          THEN HttpResponse(200, [success |-> TRUE,
                                  rows    |-> Deref(rows, retval),
                                  total   |-> Len(retval)])
          ELSE HttpResponse(200, [retval EXCEPT !.rows = Deref(rows, retval.rows)])
    /\ hpc' = "done"
    /\ UNCHANGED <<handler, request, table, session, opens, closes, pipeline_vars,
                   format_vars>>

NextHandler ==
    \/ \E h \in Handlers, req \in Requests : Receive(h, req)
    \/ ValidateSession
    \/ ReadFile
    \/ ReadBody
    \/ \E outcome \in ConnectOutcomes : Connect(outcome)
    \/ StartEnrich
    \/ EnrichStep
    \/ StartOrders
    \/ OrdersRaise
    \/ OrdersStep
    \/ \E ok \in BOOLEAN : Close(ok)
    \/ Respond

SpecHandler == Init /\ [][NextHandler]_vars

\* The request names no session that is stored and not expired.
InvalidSession ==
    \/ "X-Session-Id" \notin DOMAIN request.headers
    \/ request.headers["X-Session-Id"] \notin DOMAIN SessionTable
    \/ request.now > SessionTable[request.headers["X-Session-Id"]].expires

\* C15: once a handler has opened the backend connection it closes it
\* exactly once before it responds, whether the pipeline returned or raised,
\* and no backend call is made after the close; a request whose session is
\* missing, unknown or expired never opens a connection.
C15_ScopedConnection ==
    /\ Len(opens) <= 1
    /\ Len(closes) <= Len(opens)
    /\ \A k \in 1..Len(closes) : Len(calls) = closes[k]
    /\ opens = <<>> => calls = <<>>
    /\ (hpc = "done" /\ opens # <<>>) => Len(closes) = 1
    /\ (hpc # "idle" /\ InvalidSession) => opens = <<>>

\* A create-orders request whose pipeline raised has been answered after
\* the connection was closed.
C15_Witness ==
    /\ hpc = "done"
    /\ handler = "create_orders"
    /\ pc = "raised"
    /\ Len(opens) = 1
    /\ Len(closes) = 1
    /\ response.status_code = 500
====
